---- MODULE Spec2Model ----
(***************************************************************************)
(* The list acquisition and caching core of the Tranco client              *)
(* (src/tranco/tranco.py): the cache metadata store, Tranco.list() with    *)
(* its three network suspension points, the download paths, clear_cache(), *)
(* and the TrancoList built from the cached file.                          *)
(*                                                                         *)
(* Python strings are sequences of one-character strings; None is a value  *)
(* that is no such sequence.  A coroutine runs atomically between two      *)
(* awaits, so every action below is the code from one await to the next.   *)
(***************************************************************************)
EXTENDS Integers, Sequences, FiniteSets, TLC

VARIABLES
    cache_metadata,  \* self.cache_metadata: dict list_id -> 1 | 2 (absent = NOT_CACHED)
    metadata_file,   \* <cache_dir>/metadata.json: NoRecord or the dumped record
    files,           \* <cache_dir>/<list_id>.csv: NoFile or the bytes written
    utcnow,          \* per call: the day datetime.utcnow() gave (0: not asked)
    pc,              \* per call: "idle", an await_* suspension point, or "done"
    args,            \* per call: the arguments list() was called with
    date,            \* per call: the local `date` of list()
    list_id,         \* per call: the local `list_id` of list()
    reqs,            \* per call: the HTTP requests issued so far, with their status
    outcome,         \* per call: "none", "ok" or the exception raised
    before,          \* per call: the state _add_to_cache found for list_id (-1: not called)
    result,          \* per call: the TrancoList returned
    answer           \* the last TrancoList.top / TrancoList.rank call and what it returned

vars == <<cache_metadata, metadata_file, files, utcnow, pc, args, date, list_id,
          reqs, outcome, before, result, answer>>

disk == <<cache_metadata, metadata_file, files>>

----------------------------------------------------------------------------
(* Bounds and input sets *)

\* The number of lines list() reads when full is false (1000000 in the code),
\* scaled down; the published full list is one line longer.
TopLimit == 2

FullLen == TopLimit + 1

\* The clock reads day 2..MaxDay; day 1 is the first day that has a name.
MaxDay == 3

Days == 2..MaxDay

\* c1 is the call under study; c2 is a concurrent call of the same client,
\* made by list id.
Callers == {"c1", "c2"}

None == <<"<None>">>

NoFile == <<"<absent>">>

\* metadata.json does not exist (a dumped record is a set of key/value pairs)
NoRecord == {<<"<absent>">>}

NOT_CACHED == 0

CACHED_NOT_FULL == 1

CACHED_FULL == 2

\* bool(s) of an Optional[str]
Truthy(s) == s # None /\ s # << >>

DayName == <<"2024-01-01", "2024-01-02", "2024-01-03", "2024-01-04">>

\* strftime('%Y-%m-%d') of a day number
strftime(d) == <<DayName[d]>>

DateArgs == {None, <<"latest">>, <<"2024-01-01">>}

ListIdArgs == {None, <<"a">>}

\* the arguments each caller draws from
ArgsOf(c) ==
    IF c = "c1"
    THEN [date : DateArgs, list_id : ListIdArgs, subdomains : BOOLEAN, full : BOOLEAN]
    ELSE [date : {None}, list_id : ListIdArgs \ {None}, subdomains : {FALSE}, full : BOOLEAN]

NoArgs == [date |-> None, list_id |-> None, subdomains |-> FALSE, full |-> FALSE]

\* The bodies the service answers daily_list_id with.
Bodies == {<< >>, <<"a">>, <<"a", "\n">>}

ListIds == {id \in ListIdArgs \cup Bodies : Truthy(id)}

Statuses == {200, 403, 502, 404}

Digit == <<"1", "2", "3", "4", "5", "6", "7", "8", "9">>

Whitespace == {" ", "\n", "\t", "\r"}

----------------------------------------------------------------------------
(* The service: what a download answers with status 200 *)

SiteOf(id) == IF id = <<"a">> THEN "x" ELSE "y"

RECURSIVE Csv(_, _, _)
\* lines from..to of the list published under id: "<rank>,<site><rank>\n"
Csv(id, from, to) ==
    IF from > to THEN << >>
    ELSE <<Digit[from], ",", SiteOf(id), Digit[from], "\n">> \o Csv(id, from + 1, to)

\* top-1m.csv of download_daily/<id>, and the body of download/<id>/1000000
TruncatedBody(id) == Csv(id, 1, TopLimit)

\* the body of download/<id>/full
FullBody(id) == Csv(id, 1, FullLen)

----------------------------------------------------------------------------
(* TrancoList and the parsing of the cached file *)

RECURSIVE SplitFrom(_, _, _)
SplitFrom(s, i, cur) ==
    IF i > Len(s) THEN (IF cur = << >> THEN << >> ELSE <<cur>>)
    ELSE IF s[i] = "\n" THEN <<cur>> \o SplitFrom(s, i + 1, << >>)
    ELSE SplitFrom(s, i + 1, Append(cur, s[i]))

\* str.splitlines(), also the lines a text file iterates over (less their "\n")
splitlines(s) == SplitFrom(s, 1, << >>)

RECURSIVE rstrip(_)
rstrip(s) ==
    IF s # << >> /\ s[Len(s)] \in Whitespace THEN rstrip(SubSeq(s, 1, Len(s) - 1))
    ELSE s

\* islice(f, n)
islice(lines, n) == SubSeq(lines, 1, IF Len(lines) < n THEN Len(lines) ELSE n)

HasComma(x) == \E i \in 1..Len(x) : x[i] = ","

\* x.index(',')  (0-based)
index_comma(x) == (CHOOSE i \in 1..Len(x) : x[i] = "," /\ \A j \in 1..(i - 1) : x[j] # ",") - 1

\* x[x.index(',') + 1:]
DomainOfLine(x) == SubSeq(x, index_comma(x) + 2, Len(x))

\* a variant without the islice: every line is read, whatever full is
top_list_lines_all(bytes, full) ==
    LET ls == splitlines(bytes) IN
    IF full THEN ls ELSE [i \in 1..Len(ls) |-> rstrip(ls[i])]

\* the lines list() reads from the open cache file
top_list_lines(bytes, full) ==
    IF full THEN splitlines(bytes)
    ELSE LET ls == islice(splitlines(bytes), TopLimit)
         IN  [i \in 1..Len(ls) |-> rstrip(ls[i])]

\* a variant of the dict comprehension that counts from 0
RankDict_from_zero(lst) ==
    [dom \in {lst[i] : i \in 1..Len(lst)} |->
        (CHOOSE i \in 1..Len(lst) : lst[i] = dom /\ \A j \in (i + 1)..Len(lst) : lst[j] # dom) - 1]

\* {domain: index for index, domain in enumerate(lst, start=1)}: the last index wins
RankDict(lst) ==
    [dom \in {lst[i] : i \in 1..Len(lst)} |->
        CHOOSE i \in 1..Len(lst) : lst[i] = dom /\ \A j \in (i + 1)..Len(lst) : lst[j] # dom]

TrancoList(d, id, lst) == [date |-> d, list_id |-> id, list |-> RankDict(lst)]

NoResult == [date |-> None, list_id |-> None, list |-> [dom \in {} |-> 0]]

RECURSIVE SortedByRank(_, _)
\* sorted(self.list, key=self.list.get): the domains in doms, by ascending rank
SortedByRank(lst, doms) ==
    IF doms = {} THEN << >>
    ELSE LET d == CHOOSE x \in doms : \A y \in doms : lst[x] <= lst[y]
         IN  <<d>> \o SortedByRank(lst, doms \ {d})

\* seq[:num]
SliceTo(seq, num) ==
    IF num >= 0 THEN SubSeq(seq, 1, IF num < Len(seq) THEN num ELSE Len(seq))
    ELSE SubSeq(seq, 1, IF Len(seq) + num > 0 THEN Len(seq) + num ELSE 0)

\* a variant whose slice is one too long
top_one_more(lst, num) == SliceTo(SortedByRank(lst, DOMAIN lst), num + 1)

\* TrancoList.top(num) of the TrancoList whose self.list is lst
top(lst, num) == SliceTo(SortedByRank(lst, DOMAIN lst), num)

\* a variant whose default is 0
rank_default_zero(lst, domain) == IF domain \in DOMAIN lst THEN lst[domain] ELSE 0

\* TrancoList.rank(domain)
rank(lst, domain) == IF domain \in DOMAIN lst THEN lst[domain] ELSE -1

NoAnswer ==
    [op |-> "none", of |-> [dom \in {} |-> 0], num |-> 0, domain |-> << >>,
     top |-> << >>, rank |-> 0]

----------------------------------------------------------------------------
(* The cache metadata store *)

\* json.dump of the dict: the record as a set of key/value pairs
json_dump(md) == {<<k, md[k]>> : k \in DOMAIN md}

\* json.load: the dict of a dumped record
json_load(rec) == [k \in {p[1] : p \in rec} |-> CHOOSE v \in 0..2 : <<k, v>> \in rec]

get_list_cache(md, id) == IF id \in DOMAIN md THEN md[id] ELSE NOT_CACHED

\* a variant that answers "cached" for the full list alone
is_cached_full_only(md, id, full) == get_list_cache(md, id) = CACHED_FULL

\* a variant that ignores `full`: a truncated list counts as the full one
is_cached_ignores_full(md, id, full) == get_list_cache(md, id) # NOT_CACHED

is_cached(md, id, full) ==
    IF get_list_cache(md, id) = NOT_CACHED THEN FALSE
    ELSE IF full /\ get_list_cache(md, id) = CACHED_NOT_FULL THEN FALSE
    ELSE TRUE

Max(a, b) == IF a >= b THEN a ELSE b

\* a variant without the max(): the new state overwrites the old one
add_to_cache_overwrite(md, id, full) ==
    [k \in DOMAIN md \cup {id} |->
        IF k = id THEN (IF full THEN CACHED_FULL ELSE CACHED_NOT_FULL) ELSE md[k]]

\* a variant that ignores `full`: whatever was downloaded counts as the full list
add_to_cache_always_full(md, id, full) ==
    [k \in DOMAIN md \cup {id} |-> IF k = id THEN CACHED_FULL ELSE md[k]]

\* the dict after _add_to_cache(id, full)
add_to_cache(md, id, full) ==
    [k \in DOMAIN md \cup {id} |->
        IF k = id
        THEN Max(IF full THEN CACHED_FULL ELSE CACHED_NOT_FULL, get_list_cache(md, id))
        ELSE md[k]]

\* the metadata file after _load_cache_metadata() run with dict md in memory
load_cache_metadata_file(mf, md) == IF mf = NoRecord THEN json_dump(md) ELSE mf

\* a variant that starts from an empty dict when it had to create the file
load_cache_metadata_resets(mf, md) ==
    IF mf = NoRecord THEN [k \in {} |-> 0] ELSE json_load(mf)

\* the dict after _load_cache_metadata() run with dict md in memory
load_cache_metadata(mf, md) == json_load(load_cache_metadata_file(mf, md))

----------------------------------------------------------------------------
(* Tranco.list() *)

\* a request in flight: the endpoint, the date or list id in its URL, the
\* subdomains flag in its URL (daily_list_id only)
Req(ep, arg, sub) == [ep |-> ep, arg |-> arg, sub |-> sub, status |-> 0, text |-> None]

\* the log with the status of the request awaited filled in
Answered(log, st) == [log EXCEPT ![Len(log)].status = st]

\* the same, with r1.text of a daily_list_id answer
AnsweredText(log, st, text) == [log EXCEPT ![Len(log)].status = st, ![Len(log)].text = text]

RECURSIVE lstrip(_)
lstrip(s) == IF s # << >> /\ s[1] \in Whitespace THEN lstrip(Tail(s)) ELSE s

\* str.strip()
strip(s) == lstrip(rstrip(s))

\* a variant that trims the body
list_id_of_text_stripped(text) == strip(text)

\* line 155: the list id _get_list_id_for_date returns for the body r1.text
list_id_of_text(text) == text

\* a variant that also falls back on 502
zip_branch_502_fallback(st) ==
    IF st = 200 THEN "extract"
    ELSE IF st = 403 \/ st = 502 THEN "fallback"
    ELSE "raise"

\* lines 169-190: what _download_zip_file does on a status
zip_branch(st) ==
    IF st = 200 THEN "extract"
    ELSE IF st = 403 THEN "fallback"
    ELSE IF st = 502 THEN "raise"
    ELSE "raise"

\* a variant without the check of line 129
ArgsConflict_never(a) == FALSE

\* line 129
ArgsConflict(a) == Truthy(a.date) /\ Truthy(a.list_id)

\* a variant in which the subdomains flag forces the lookup by date
NeedsLookup_subdomains(a) == ~Truthy(a.list_id) \/ a.subdomains

\* line 134
NeedsLookup(a) == ~Truthy(a.list_id)

\* a variant that does not know the sentinel 'latest'
DefaultsToLatest_none_only(a) == ~Truthy(a.date)

\* line 135
DefaultsToLatest(a) == ~Truthy(a.date) \/ a.date = <<"latest">>

\* the call ends: it returns res (out = "ok") or raises out
Finish(c, d, id, log, out, res) ==
    /\ pc' = [pc EXCEPT ![c] = "done"]
    /\ date' = [date EXCEPT ![c] = d]
    /\ list_id' = [list_id EXCEPT ![c] = id]
    /\ reqs' = [reqs EXCEPT ![c] = log]
    /\ outcome' = [outcome EXCEPT ![c] = out]
    /\ result' = [result EXCEPT ![c] = res]
    /\ answer' = answer

\* the call suspends at `await` on the last request of log
Await(c, at, d, id, log) ==
    /\ pc' = [pc EXCEPT ![c] = at]
    /\ date' = [date EXCEPT ![c] = d]
    /\ list_id' = [list_id EXCEPT ![c] = id]
    /\ reqs' = [reqs EXCEPT ![c] = log]
    /\ UNCHANGED <<outcome, result, answer>>

\* no _add_to_cache in this step
NoMark == UNCHANGED <<disk, before>>

\* lines 142-148, reading the cache directory fs
ReadCache(c, d, id, full, log, fs) ==
    IF fs[id] = NoFile THEN Finish(c, d, id, log, "FileNotFoundError", NoResult)
    ELSE LET ls == top_list_lines(fs[id], full) IN
         IF \E i \in 1..Len(ls) : ~HasComma(ls[i])
         THEN Finish(c, d, id, log, "ValueError", NoResult)
         ELSE Finish(c, d, id, log, "ok",
                     TrancoList(d, id, [i \in 1..Len(ls) |-> DomainOfLine(ls[i])]))

\* lines 140-148 up to the first await of _download_file
EnsureCached(c, d, id, full, log) ==
    /\ NoMark
    /\ IF ~Truthy(id) THEN Finish(c, d, id, log, "ValueError", NoResult)
       ELSE IF is_cached(cache_metadata, id, full) THEN ReadCache(c, d, id, full, log, files)
       ELSE IF full THEN Await(c, "await_full", d, id, Append(log, Req("download_full", id, FALSE)))
       ELSE Await(c, "await_zip", d, id, Append(log, Req("download_daily", id, FALSE)))

\* line 164 and lines 142-148, after the download wrote the cache directory fs
AddAndRead(c, log, fs) ==
    LET md == add_to_cache(cache_metadata, list_id[c], args[c].full) IN
    /\ files' = fs
    /\ cache_metadata' = md
    /\ metadata_file' = json_dump(md)
    /\ before' = [before EXCEPT ![c] = get_list_cache(cache_metadata, list_id[c])]
    /\ ReadCache(c, date[c], list_id[c], args[c].full, log, fs)

\* lines 118-141: the call up to its first await
ListCall(c) ==
    /\ pc[c] = "idle"
    /\ \E a \in ArgsOf(c), now \in Days :  \* now is read at line 136 alone
         /\ args' = [args EXCEPT ![c] = a]
         /\ IF ArgsConflict(a)
            THEN /\ now = MaxDay
                 /\ Finish(c, a.date, a.list_id, << >>, "ValueError", NoResult)
                 /\ NoMark
                 /\ UNCHANGED utcnow
            ELSE IF NeedsLookup(a)
            THEN IF DefaultsToLatest(a)
                 THEN /\ utcnow' = [utcnow EXCEPT ![c] = now]
                      /\ Await(c, "await_id", strftime(now - 1), a.list_id,
                               <<Req("daily_list_id", strftime(now - 1), a.subdomains)>>)
                      /\ NoMark
                 ELSE /\ now = MaxDay
                      /\ Await(c, "await_id", a.date, a.list_id,
                               <<Req("daily_list_id", a.date, a.subdomains)>>)
                      /\ NoMark
                      /\ UNCHANGED utcnow
            ELSE /\ now = MaxDay
                 /\ EnsureCached(c, a.date, a.list_id, a.full, << >>)
                 /\ UNCHANGED utcnow

\* lines 151-157, then 140-141: the answer to daily_list_id
ListIdResponse(c) ==
    /\ pc[c] = "await_id"
    /\ UNCHANGED <<args, utcnow>>
    /\ \E st \in Statuses :
         IF st = 200
         THEN \E text \in Bodies :
                 EnsureCached(c, date[c], list_id_of_text(text), args[c].full,
                              AnsweredText(reqs[c], st, text))
         ELSE /\ Finish(c, date[c], list_id[c], Answered(reqs[c], st), "AttributeError", NoResult)
              /\ NoMark

\* lines 168-190, then 164: the answer to download_daily/<list_id>
ZipResponse(c) ==
    /\ pc[c] = "await_zip"
    /\ UNCHANGED <<args, utcnow>>
    /\ \E st \in Statuses :
         LET log == Answered(reqs[c], st) IN
         IF zip_branch(st) = "extract"
         THEN \E zipok \in BOOLEAN :  \* the archive opens and holds top-1m.csv, or not
                 IF zipok
                 THEN AddAndRead(c, log, [files EXCEPT ![list_id[c]] = TruncatedBody(list_id[c])])
                 ELSE Finish(c, date[c], list_id[c], log, "BadZipFile", NoResult) /\ NoMark
         ELSE IF zip_branch(st) = "fallback"
         THEN /\ Await(c, "await_fallback", date[c], list_id[c],
                       Append(log, Req("download_1000000", list_id[c], FALSE)))
              /\ NoMark
         ELSE /\ Finish(c, date[c], list_id[c], log, "AttributeError", NoResult)
              /\ NoMark

\* lines 178-184, then 164: the answer to download/<list_id>/1000000
FallbackResponse(c) ==
    /\ pc[c] = "await_fallback"
    /\ UNCHANGED <<args, utcnow>>
    /\ \E st \in Statuses :
         LET log == Answered(reqs[c], st) IN
         IF st = 200
         THEN AddAndRead(c, log, [files EXCEPT ![list_id[c]] = TruncatedBody(list_id[c])])
         ELSE Finish(c, date[c], list_id[c], log, "AttributeError", NoResult) /\ NoMark

\* lines 194-198, then 164: the answer to download/<list_id>/full
FullResponse(c) ==
    /\ pc[c] = "await_full"
    /\ UNCHANGED <<args, utcnow>>
    /\ \E st \in Statuses :
         LET log == Answered(reqs[c], st) IN
         AddAndRead(c, log, IF st = 200 THEN [files EXCEPT ![list_id[c]] = FullBody(list_id[c])]
                                ELSE files)

\* the caller takes the result; the call's frame is gone
Return(c) ==
    /\ pc[c] = "done"
    /\ pc' = [pc EXCEPT ![c] = "idle"]
    /\ args' = [args EXCEPT ![c] = NoArgs]
    /\ utcnow' = [utcnow EXCEPT ![c] = 0]
    /\ date' = [date EXCEPT ![c] = None]
    /\ list_id' = [list_id EXCEPT ![c] = None]
    /\ reqs' = [reqs EXCEPT ![c] = << >>]
    /\ outcome' = [outcome EXCEPT ![c] = "none"]
    /\ before' = [before EXCEPT ![c] = -1]
    /\ result' = [result EXCEPT ![c] = NoResult]
    /\ UNCHANGED <<disk, answer>>

\* lines 113-116
clear_cache ==
    /\ files' = [id \in ListIds |-> NoFile]
    /\ metadata_file' = load_cache_metadata_file(NoRecord, cache_metadata)
    /\ cache_metadata' = load_cache_metadata(NoRecord, cache_metadata)
    /\ UNCHANGED <<utcnow, pc, args, date, list_id, reqs, outcome, before, result, answer>>

\* lines 48-55 on a fresh cache directory
Init ==
    /\ cache_metadata = load_cache_metadata(NoRecord, [k \in {} |-> 0])
    /\ metadata_file = load_cache_metadata_file(NoRecord, [k \in {} |-> 0])
    /\ files = [id \in ListIds |-> NoFile]
    /\ utcnow = [c \in Callers |-> 0]
    /\ pc = [c \in Callers |-> "idle"]
    /\ args = [c \in Callers |-> NoArgs]
    /\ date = [c \in Callers |-> None]
    /\ list_id = [c \in Callers |-> None]
    /\ reqs = [c \in Callers |-> << >>]
    /\ outcome = [c \in Callers |-> "none"]
    /\ before = [c \in Callers |-> -1]
    /\ result = [c \in Callers |-> NoResult]
    /\ answer = NoAnswer

Next ==
    \/ \E c \in Callers : ListCall(c)
    \/ \E c \in Callers : ListIdResponse(c)
    \/ \E c \in Callers : ZipResponse(c)
    \/ \E c \in Callers : FallbackResponse(c)
    \/ \E c \in Callers : FullResponse(c)
    \/ \E c \in Callers : Return(c)
    \/ clear_cache

Spec == Init /\ [][Next]_vars

----------------------------------------------------------------------------
(* Reading a cache directory left by an earlier run, and querying the result *)

\* the csv lines an <id>.csv left behind is made of
CsvLines ==
    { <<"1", ",", "x">>, <<"2", ",", "y">>, <<"1", "0", ",", "x">>,
      <<"3", ",", "x", ",", "z">> }

\* the longest file left behind: one line more than list() reads when full is false
MaxLines == TopLimit + 1

LineSeqs == UNION {[1..n -> CsvLines] : n \in 0..MaxLines}

RECURSIVE Unlines(_)
\* the bytes of a file with these lines
Unlines(ls) == IF ls = << >> THEN << >> ELSE Head(ls) \o <<"\n">> \o Unlines(Tail(ls))

\* the domains asked for
QueryDomains == {<<"x">>, <<"y">>, <<"x", ",", "z">>, <<"X">>, <<"z">>, << >>}

\* the caller that reads the directory
Reader == "c2"

\* lines 24-25: top(num) on the TrancoList the call returned
Top(c) ==
    /\ pc[c] = "done" /\ outcome[c] = "ok"
    /\ \E n \in 0..(MaxLines + 1) :
         answer' = [NoAnswer EXCEPT !.op = "top", !.of = result[c].list, !.num = n,
                                    !.top = top(result[c].list, n)]
    /\ UNCHANGED <<disk, utcnow, pc, args, date, list_id, reqs, outcome, before, result>>

\* lines 27-28: rank(domain) on the TrancoList the call returned
Rank(c) ==
    /\ pc[c] = "done" /\ outcome[c] = "ok"
    /\ \E dom \in QueryDomains :
         answer' = [NoAnswer EXCEPT !.op = "rank", !.of = result[c].list, !.domain = dom,
                                    !.rank = rank(result[c].list, dom)]
    /\ UNCHANGED <<disk, utcnow, pc, args, date, list_id, reqs, outcome, before, result>>

\* lines 48-55 on a cache directory that holds metadata.json = {"a": 2} and an a.csv
LoadInit ==
    /\ \E ls \in LineSeqs : files = [id \in ListIds |-> IF id = <<"a">> THEN Unlines(ls) ELSE NoFile]
    /\ metadata_file = load_cache_metadata_file({<<(<<"a">>), CACHED_FULL>>}, [k \in {} |-> 0])
    /\ cache_metadata = load_cache_metadata({<<(<<"a">>), CACHED_FULL>>}, [k \in {} |-> 0])
    /\ utcnow = [c \in Callers |-> 0]
    /\ pc = [c \in Callers |-> "idle"]
    /\ args = [c \in Callers |-> NoArgs]
    /\ date = [c \in Callers |-> None]
    /\ list_id = [c \in Callers |-> None]
    /\ reqs = [c \in Callers |-> << >>]
    /\ outcome = [c \in Callers |-> "none"]
    /\ before = [c \in Callers |-> -1]
    /\ result = [c \in Callers |-> NoResult]
    /\ answer = NoAnswer

LoadNext ==
    \/ ListCall(Reader)
    \/ Return(Reader)
    \/ Top(Reader)
    \/ Rank(Reader)

SpecLoad == LoadInit /\ [][LoadNext]_vars

----------------------------------------------------------------------------
(* Properties *)

\* the cache state the metadata dict md records for id
StateIn(md, id) == get_list_cache(md, id)

State(id) == StateIn(cache_metadata, id)

LastReq(log) == log[Len(log)]

Downloads == {"download_daily", "download_1000000", "download_full"}

\* C1: whenever the metadata records an identifier as cached (truncated or
\* full), its cache file exists and holds a completely written list; a failed
\* download leaves no entry marked cached.
C1_CachedEntryHasFile ==
    \A id \in ListIds :
        State(id) # NOT_CACHED => files[id] \in {TruncatedBody(id), FullBody(id)}

\* C2: when the full download of a call is answered with a non-200 status, the
\* metadata state of its identifier is left as it was, so isCached(id, true) does
\* not become true.
C2_FailedFullDownloadLeavesState ==
    [][\A c \in Callers :
          (pc[c] = "await_full" /\ pc'[c] = "done" /\ LastReq(reqs'[c]).status # 200)
          => /\ StateIn(cache_metadata', list_id[c]) = State(list_id[c])
             /\ (~is_cached(cache_metadata, list_id[c], TRUE)
                   => ~is_cached(cache_metadata', list_id[c], TRUE))]_vars

\* C3: after clearCache() no identifier is cached, for either value of
\* requireFull: no cache file is left and the in-memory metadata and the
\* persisted record are both empty.
C3_ClearLeavesNothingCached ==
    [][clear_cache
          => /\ \A id \in ListIds, full \in BOOLEAN : ~is_cached(cache_metadata', id, full)
             /\ \A id \in ListIds : files'[id] = NoFile
             /\ DOMAIN cache_metadata' = {}
             /\ metadata_file' = {}]_vars

\* C4: clearCache aside, no step lowers the cache state of an identifier in the
\* order NotCached < CachedTruncated < CachedFull; a truncated download that
\* completes on a CachedFull identifier leaves it CachedFull.
C4_StateNeverDecreases ==
    [][clear_cache \/ \A id \in ListIds : StateIn(cache_metadata', id) >= State(id)]_vars

\* a truncated download completed on an identifier that was already CachedFull
C4_Witness ==
    \E c \in Callers :
        /\ pc[c] = "done" /\ ~args[c].full
        /\ before[c] = CACHED_FULL
        /\ State(list_id[c]) = CACHED_FULL

\* C5: the step that runs markCached(id, full) sets the state of id to
\* max(state before, CachedFull if full else CachedTruncated), touches no other
\* identifier and persists the record: from NotCached with full = false,
\* isCached(id, false) holds and isCached(id, true) does not; with full = true
\* both hold.
C5_MarkCachedSetsMax ==
    [][\A c \in Callers :
          (before[c] = -1 /\ before'[c] # -1)
          => LET id == list_id[c]
                 old == State(id)
                 new == StateIn(cache_metadata', id)
                 full == args[c].full
             IN  /\ before'[c] = old
                 /\ new = (IF full \/ old = CACHED_FULL THEN CACHED_FULL ELSE CACHED_NOT_FULL)
                 /\ is_cached(cache_metadata', id, FALSE)
                 /\ is_cached(cache_metadata', id, TRUE) <=> (full \/ old = CACHED_FULL)
                 /\ (old = NOT_CACHED /\ ~full => ~is_cached(cache_metadata', id, TRUE))
                 /\ \A k \in ListIds \ {id} : StateIn(cache_metadata', k) = State(k)
                 /\ metadata_file' = json_dump(cache_metadata')]_vars

\* markCached(id, full = true) ran on an identifier that was CachedTruncated
C5_Witness ==
    \E c \in Callers :
        /\ pc[c] = "done" /\ args[c].full
        /\ before[c] = CACHED_NOT_FULL
        /\ State(list_id[c]) = CACHED_FULL
        /\ is_cached(cache_metadata, list_id[c], FALSE)
        /\ is_cached(cache_metadata, list_id[c], TRUE)

\* the step of call c that runs line 140 on the resolved list id
ChecksCache(c) ==
    /\ pc[c] \in {"idle", "await_id"}
    /\ pc'[c] \notin {"idle", "await_id"}
    /\ ~(Truthy(args'[c].date) /\ Truthy(args'[c].list_id))
    /\ Truthy(list_id'[c])

\* C6: a list() call that reaches the cache check while its identifier is
\* already cached in the variant asked for (CachedFull, or CachedTruncated with
\* full = false) issues no download request and leaves the metadata, the
\* persisted record and the cache files unchanged.
C6_CachedCallDownloadsNothing ==
    [][\A c \in Callers :
          (/\ ChecksCache(c)
           /\ State(list_id'[c]) >= (IF args'[c].full THEN CACHED_FULL ELSE CACHED_NOT_FULL))
          => /\ pc'[c] = "done"
             /\ \A i \in 1..Len(reqs'[c]) : reqs'[c][i].ep \notin Downloads
             /\ before'[c] = -1
             /\ UNCHANGED disk]_vars

\* a call with full = false was served from a CachedFull entry without a request
C6_Witness ==
    \E c \in Callers :
        /\ pc[c] = "done" /\ outcome[c] = "ok" /\ ~args[c].full
        /\ reqs[c] = << >>
        /\ State(list_id[c]) = CACHED_FULL
        /\ files[list_id[c]] = FullBody(list_id[c])
        /\ \E d \in DOMAIN result[c].list : result[c].list[d] = TopLimit

\* what the log of a call says about the truncated download path
TruncatedPathLog(log, p, out) ==
    LET daily == {i \in 1..Len(log) : log[i].ep = "download_daily"}
        fallback == {i \in 1..Len(log) : log[i].ep = "download_1000000"}
    IN  /\ (fallback # {}) <=> (\E i \in daily : log[i].status = 403)
        /\ \A j \in fallback : j > 1 /\ (j - 1) \in daily /\ log[j].arg = log[j - 1].arg
        /\ (p = "done" /\ daily # {})
             => ((out = "AttributeError")
                   <=> \/ \E i \in daily : log[i].status \notin {200, 403}
                       \/ \E j \in fallback : log[j].status # 200)

\* C7: on the truncated path the fallback request is issued iff download_daily
\* answered 403; the call fails with ListUnavailable exactly when the first
\* status is neither 200 nor 403, or it is 403 and the fallback status is not
\* 200; a failure writes no file and leaves the metadata as it was; on success
\* the truncated list is written and the identifier is CachedTruncated, or
\* stays CachedFull.
C7_TruncatedPath ==
    [][\A c \in Callers :
          /\ TruncatedPathLog(reqs'[c], pc'[c], outcome'[c])
          /\ (pc[c] \in {"await_zip", "await_fallback"} /\ pc'[c] = "done")
               => IF outcome'[c] \in {"AttributeError", "BadZipFile"}
                  THEN UNCHANGED disk /\ before'[c] = -1
                  ELSE /\ outcome'[c] = "ok"
                       /\ LastReq(reqs'[c]).status = 200
                       /\ files'[list_id[c]] = TruncatedBody(list_id[c])
                       /\ StateIn(cache_metadata', list_id[c])
                            = (IF State(list_id[c]) = CACHED_FULL THEN CACHED_FULL
                               ELSE CACHED_NOT_FULL)]_vars

\* download_daily answered 403 and the fallback failed: ListUnavailable
C7_Witness ==
    \E c \in Callers :
        /\ pc[c] = "done" /\ outcome[c] = "AttributeError"
        /\ Len(reqs[c]) >= 2
        /\ LastReq(reqs[c]).ep = "download_1000000"
        /\ LastReq(reqs[c]).status = 502
        /\ reqs[c][Len(reqs[c]) - 1].status = 403
        /\ State(list_id[c]) = NOT_CACHED

\* C8: list() called with both a date and a list id fails with InvalidArgument
\* (ValueError) at once: it issues no request and leaves metadata and files alone.
C8_DateAndListIdRejected ==
    [][\A c \in Callers :
          (/\ pc[c] = "idle" /\ pc'[c] # "idle"
           /\ Truthy(args'[c].date) /\ Truthy(args'[c].list_id))
          => /\ pc'[c] = "done"
             /\ outcome'[c] = "ValueError"
             /\ reqs'[c] = << >>
             /\ before'[c] = -1
             /\ UNCHANGED disk]_vars

\* a call with a date and a list id has failed
C8_Witness ==
    \E c \in Callers :
        /\ pc[c] = "done" /\ outcome[c] = "ValueError"
        /\ args[c].date = <<"2024-01-01">> /\ args[c].list_id = <<"a">>
        /\ reqs[c] = << >>

\* C9: a call with a list id and no date uses that list id unchanged: it never
\* issues a daily_list_id lookup, never reads the clock, every request it issues
\* is a download of that list id carrying no subdomains flag, and the TopList
\* it returns is the one of that list id, whatever includeSubdomains is.
C9_ListIdUsedUnchanged ==
    \A c \in Callers :
        (pc[c] # "idle" /\ Truthy(args[c].list_id) /\ ~Truthy(args[c].date))
        => /\ list_id[c] = args[c].list_id
           /\ date[c] = args[c].date
           /\ utcnow[c] = 0
           /\ \A i \in 1..Len(reqs[c]) :
                 /\ reqs[c][i].ep \in Downloads
                 /\ reqs[c][i].arg = args[c].list_id
                 /\ reqs[c][i].sub = FALSE
           /\ (outcome[c] = "ok"
                 => result[c].list_id = args[c].list_id /\ result[c].date = args[c].date)

\* a call with a list id and includeSubdomains = true has returned a TopList
C9_Witness ==
    \E c \in Callers :
        /\ pc[c] = "done" /\ outcome[c] = "ok"
        /\ args[c].list_id = <<"a">> /\ args[c].subdomains /\ ~Truthy(args[c].date)
        /\ Len(reqs[c]) = 1
        /\ result[c].list_id = <<"a">>

\* the calls that resolved their list id by date, with the answer they got
Looked(c) == pc[c] # "idle" /\ reqs[c] # << >> /\ reqs[c][1].ep = "daily_list_id"

\* C10, as stated: on status 200 the identifier is the body trimmed of
\* surrounding whitespace; on another status the call fails with
\* ListUnavailable and issues no download.
C10_IdIsTrimmedBody ==
    \A c \in Callers :
        Looked(c) =>
            /\ reqs[c][1].status = 200 => list_id[c] = strip(reqs[c][1].text)
            /\ reqs[c][1].status \notin {0, 200}
                 => pc[c] = "done" /\ outcome[c] = "AttributeError" /\ Len(reqs[c]) = 1

\* C10, amended: on status 200 the identifier is the body as received, not
\* trimmed, and it is the identifier of every download request of the call and
\* of the TopList returned; on another status the call fails with
\* ListUnavailable (AttributeError) and issues no download.
C10_IdIsBodyAsReceived ==
    \A c \in Callers :
        Looked(c) =>
            /\ reqs[c][1].status = 200
                 => /\ list_id[c] = reqs[c][1].text
                    /\ \A i \in 2..Len(reqs[c]) : reqs[c][i].arg = reqs[c][1].text
                    /\ outcome[c] = "ok" => result[c].list_id = reqs[c][1].text
            /\ reqs[c][1].status \notin {0, 200}
                 => /\ pc[c] = "done" /\ outcome[c] = "AttributeError" /\ Len(reqs[c]) = 1
                    /\ list_id[c] = None

\* a lookup answered "a\n" and the list was downloaded and cached under "a\n"
C10_Witness ==
    \E c \in Callers :
        /\ Looked(c) /\ pc[c] = "done" /\ outcome[c] = "ok"
        /\ reqs[c][1].status = 200 /\ reqs[c][1].text = <<"a", "\n">>
        /\ Len(reqs[c]) = 2 /\ reqs[c][2].arg = <<"a", "\n">>
        /\ State(<<"a", "\n">>) # NOT_CACHED
        /\ files[<<"a", "\n">>] # NoFile

\* C11: a call with no list id and with no date, or the date 'latest', uses
\* the day before the current UTC day: the clock is read, that date is the one
\* of the daily_list_id lookup, sent with the caller's subdomains flag, and it
\* is the date of the TopList returned.
C11_LatestIsYesterday ==
    \A c \in Callers :
        (/\ pc[c] # "idle"
         /\ ~Truthy(args[c].list_id)
         /\ (args[c].date = None \/ args[c].date = <<"latest">>))
        => /\ utcnow[c] \in Days
           /\ date[c] = <<DayName[utcnow[c] - 1]>>
           /\ reqs[c] # << >>
           /\ reqs[c][1].ep = "daily_list_id"
           /\ reqs[c][1].arg = <<DayName[utcnow[c] - 1]>>
           /\ reqs[c][1].sub = args[c].subdomains
           /\ outcome[c] = "ok" => result[c].date = <<DayName[utcnow[c] - 1]>>

\* list(date = 'latest', subdomains = true) on day 3 returned the list of day 2
C11_Witness ==
    \E c \in Callers :
        /\ pc[c] = "done" /\ outcome[c] = "ok"
        /\ args[c].date = <<"latest">> /\ args[c].subdomains
        /\ utcnow[c] = 3
        /\ reqs[c][1].arg = <<"2024-01-02">> /\ reqs[c][1].sub
        /\ result[c].date = <<"2024-01-02">>

\* C16: isCached(id, requireFull) is false for an identifier the metadata does
\* not hold, and in general is: state(id) is not NotCached, and requireFull
\* implies state(id) is CachedFull; getState is NotCached for an unknown
\* identifier; the call that asks (line 140) is served from the cache exactly
\* when the answer is true, and asking changes nothing on disk or in the dict.
C16_IsCachedIsStateTest ==
    [][/\ \A id \in ListIds, full \in BOOLEAN :
             /\ is_cached(cache_metadata', id, full)
                  <=> /\ id \in DOMAIN cache_metadata'
                      /\ cache_metadata'[id] # NOT_CACHED
                      /\ full => cache_metadata'[id] = CACHED_FULL
             /\ id \notin DOMAIN cache_metadata'
                  => get_list_cache(cache_metadata', id) = NOT_CACHED
       /\ \A c \in Callers :
             ChecksCache(c)
             => /\ UNCHANGED disk
                /\ (pc'[c] = "done")
                     <=> /\ list_id'[c] \in DOMAIN cache_metadata
                         /\ args'[c].full => cache_metadata[list_id'[c]] = CACHED_FULL
                /\ pc'[c] # "done"
                     => /\ pc'[c] = (IF args'[c].full THEN "await_full" ELSE "await_zip")
                        /\ LastReq(reqs'[c]).arg = list_id'[c]]_vars

\* a call for the full list found its identifier CachedTruncated and downloads
C16_Witness ==
    \E c \in Callers :
        /\ pc[c] = "await_full" /\ args[c].full
        /\ State(list_id[c]) = CACHED_NOT_FULL
        /\ before[c] = -1

\* the call finished after a download whose last answer was 200
Downloaded(c) ==
    /\ pc[c] = "done" /\ outcome[c] = "ok"
    /\ reqs[c] # << >>
    /\ LastReq(reqs[c]).ep \in Downloads
    /\ LastReq(reqs[c]).status = 200

\* C17: when a truncated and a full list() call for the same identifier have
\* both downloaded successfully and completed, an identifier recorded as
\* CachedFull has the full list in its cache file, not the truncated one.
C17_ConcurrentCallsLeaveFullFile ==
    \A c, d \in Callers :
        (/\ Downloaded(c) /\ Downloaded(d)
         /\ ~args[c].full /\ args[d].full
         /\ list_id[c] = list_id[d]
         /\ State(list_id[c]) = CACHED_FULL
         /\ files[list_id[c]] # NoFile)
        => files[list_id[c]] = FullBody(list_id[c])

\* the domain on line i of the list published under id
PublishedDomain(id, i) == <<SiteOf(id), Digit[i]>>

\* C18: a list() call with full = true that returns a TopList returns every
\* entry of the full published list, each with its rank.
C18_FullCallReturnsFullList ==
    \A c \in Callers :
        (pc[c] = "done" /\ outcome[c] = "ok" /\ args[c].full)
        => \A i \in 1..FullLen :
              /\ PublishedDomain(list_id[c], i) \in DOMAIN result[c].list
              /\ result[c].list[PublishedDomain(list_id[c], i)] = i

\* C19: at every point between operations the persisted record is the whole
\* in-memory mapping, and a client created on the same cache directory (an
\* empty dict, then _load_cache_metadata) holds exactly the same states.
C19_RecordEqualsMemory ==
    /\ metadata_file # NoRecord
    /\ metadata_file = {<<k, cache_metadata[k]>> : k \in DOMAIN cache_metadata}
    /\ LET reopened == load_cache_metadata(metadata_file, [k \in {} |-> 0])
       IN  /\ DOMAIN reopened = DOMAIN cache_metadata
           /\ \A k \in DOMAIN cache_metadata : reopened[k] = cache_metadata[k]

\* clear_cache ran with two identifiers recorded: both are still in the
\* record and in memory
C19_Witness ==
    /\ Cardinality(DOMAIN cache_metadata) = 2
    /\ Cardinality(metadata_file) = 2
    /\ \A id \in ListIds : files[id] = NoFile
    /\ \E id \in ListIds : State(id) = CACHED_FULL
    /\ \E id \in ListIds : State(id) = CACHED_NOT_FULL

\* the lines the cache file of a finished call is made of
FileLines(c) == CHOOSE ls \in LineSeqs : Unlines(ls) = files[list_id[c]]

RECURSIVE AfterFirstComma(_)
\* the text of a line after its first comma
AfterFirstComma(l) == IF Head(l) = "," THEN Tail(l) ELSE AfterFirstComma(Tail(l))

\* the number of lines of its file a finished call has read
NumRead(c) ==
    IF args[c].full \/ Len(FileLines(c)) <= TopLimit THEN Len(FileLines(c)) ELSE TopLimit

Loaded(c) == pc[c] = "done" /\ outcome[c] = "ok" /\ files[list_id[c]] # NoFile

\* C12, as stated: the domain of the i-th line read has the rank i, for every
\* line read, also when the domain occurs on more than one line.
C12_LineDomainHasLineRank ==
    \A c \in Callers :
        Loaded(c) =>
            \A i \in 1..NumRead(c) :
                /\ AfterFirstComma(FileLines(c)[i]) \in DOMAIN result[c].list
                /\ result[c].list[AfterFirstComma(FileLines(c)[i])] = i

\* C12, amended: the TopList holds exactly the domains of the lines read (the
\* text after the first comma, later commas kept), whatever the rank column
\* says; the domain of the i-th line has the rank i when it occurs on no later
\* line, and a domain that occurs on several lines has the rank of the last.
C12_LineDomainHasLastLineRank ==
    \A c \in Callers :
        Loaded(c) =>
            LET ls == FileLines(c)
                n == NumRead(c)
            IN  /\ DOMAIN result[c].list = {AfterFirstComma(ls[i]) : i \in 1..n}
                /\ \A i \in 1..n :
                      LET dom == AfterFirstComma(ls[i]) IN
                      /\ (\A j \in (i + 1)..n : AfterFirstComma(ls[j]) # dom)
                           => result[c].list[dom] = i
                      /\ \E j \in i..n :
                            /\ AfterFirstComma(ls[j]) = dom
                            /\ result[c].list[dom] = j
                            /\ \A k \in (j + 1)..n : AfterFirstComma(ls[k]) # dom

\* a file "1,x" "3,x,z" "10,x" was loaded in full: x has rank 3, "x,z" rank 2
C12_Witness ==
    \E c \in Callers :
        /\ Loaded(c) /\ args[c].full
        /\ FileLines(c) = << <<"1", ",", "x">>, <<"3", ",", "x", ",", "z">>,
                             <<"1", "0", ",", "x">> >>
        /\ result[c].list[<<"x">>] = 3
        /\ result[c].list[<<"x", ",", "z">>] = 2

\* C13: top(n) returns min(n, size) domains of the list, in strictly
\* increasing rank, none of them ranked after a domain left out; with n at
\* least the size it returns every domain.
C13_TopIsFirstByRank ==
    answer.op = "top" =>
        LET t == answer.top
            lst == answer.of
            size == Cardinality(DOMAIN lst)
        IN  /\ Len(t) = (IF answer.num < size THEN answer.num ELSE size)
            /\ \A i \in 1..Len(t) : t[i] \in DOMAIN lst
            /\ \A i, j \in 1..Len(t) : i < j => lst[t[i]] < lst[t[j]]
            /\ \A d \in DOMAIN lst :
                  (\A i \in 1..Len(t) : t[i] # d) => \A i \in 1..Len(t) : lst[t[i]] < lst[d]
            /\ answer.num >= size => {t[i] : i \in 1..Len(t)} = DOMAIN lst

\* top(2) was asked of a list of three domains
C13_Witness ==
    /\ answer.op = "top" /\ answer.num = 2
    /\ Cardinality(DOMAIN answer.of) = 3
    /\ Len(answer.top) = 2

\* C14: rank(domain) is a positive rank exactly when the domain string is in
\* the list as it is written, and -1 otherwise; it is never 0 nor below -1.
C14_RankOrMinusOne ==
    answer.op = "rank" =>
        /\ (answer.rank > 0) <=> (answer.domain \in DOMAIN answer.of)
        /\ answer.domain \in DOMAIN answer.of => answer.rank = answer.of[answer.domain]
        /\ answer.domain \notin DOMAIN answer.of => answer.rank = -1
        /\ answer.rank # 0 /\ answer.rank >= -1

\* rank("X") was asked of a list that holds "x": -1
C14_Witness ==
    /\ answer.op = "rank" /\ answer.domain = <<"X">>
    /\ <<"x">> \in DOMAIN answer.of
    /\ answer.rank = -1

\* C15: a call with full = false builds its TopList from the first TopLimit
\* lines of the cache file at most, also when the file is longer (a full list
\* cached earlier), so no rank exceeds TopLimit; a call with full = true uses
\* every line of the file.
C15_TruncatedCallReadsTopLimitLines ==
    \A c \in Callers :
        Loaded(c) =>
            LET ls == FileLines(c) IN
            IF args[c].full
            THEN DOMAIN result[c].list = {AfterFirstComma(ls[i]) : i \in 1..Len(ls)}
            ELSE /\ \A d \in DOMAIN result[c].list : result[c].list[d] <= TopLimit
                 /\ Cardinality(DOMAIN result[c].list) <= TopLimit
                 /\ DOMAIN result[c].list
                      = {AfterFirstComma(ls[i]) : i \in {j \in 1..Len(ls) : j <= TopLimit}}

\* a call with full = false read a file of TopLimit + 1 lines recorded as
\* CachedFull and left its last line out
C15_Witness ==
    \E c \in Callers :
        /\ Loaded(c) /\ ~args[c].full
        /\ State(list_id[c]) = CACHED_FULL
        /\ Len(FileLines(c)) = TopLimit + 1
        /\ AfterFirstComma(FileLines(c)[TopLimit + 1]) \notin DOMAIN result[c].list
        /\ Cardinality(DOMAIN result[c].list) = TopLimit

====
